---- MODULE Spec2Model ----
(***************************************************************************)
(* A model of blink's core: core_highlight (detect_language, tokenize,     *)
(* collect_tokens, classify_node and its kind tables), core_git            *)
(* (blame_file, parse_porcelain, blame_commit_diff and its diff cache),    *)
(* core_fs (list_dir) and the core_api entry points read_file,             *)
(* highlight_range and blame_range.                                        *)
(*                                                                         *)
(* The syntax tree is the tree-sitter parser's output.  A tree is drawn    *)
(* from the well-formed trees over the source text: leaves are byte ranges *)
(* of the text, in source order and non-overlapping, possibly of zero      *)
(* width (the root of an empty text, a MISSING token of error recovery);   *)
(* rows and columns are computed from the text as tree-sitter computes     *)
(* them (0-based, columns in bytes).                                       *)
(***************************************************************************)
EXTENDS Integers, Sequences, FiniteSets, TLC

\* Bounds of the model.
MaxText == 3
MaxNodes == 3
MaxLine == 2
MaxFile == 2
MaxPath == 3

NL == "\n"

\* A source byte is a newline or any other byte ("a").
Bytes == {"a", NL}

Texts == UNION {[1..n -> Bytes] : n \in 0..MaxText}

SetMax(S) == CHOOSE x \in S : \A y \in S : y <= x

\* tree_sitter::Point of the byte offset off (0-based row and column).
Row(text, off) == Cardinality({i \in 1..off : text[i] = NL})

Col(text, off) == off - SetMax({0} \cup {i \in 1..off : text[i] = NL})

--------------------------------------------------------------------------
\* Token categories (core_types::TokenType).
TokenType ==
    {"Keyword", "String", "Comment", "Type", "Function", "Number",
     "Operator", "Punctuation", "Variable", "Plain"}

is_comment_kind(kind) ==
    kind \in {"comment", "line_comment", "block_comment", "html_comment"}

is_string_kind(kind) ==
    kind \in {"string", "string_fragment", "template_string",
              "template_literal_type", "interpreted_string_literal",
              "raw_string_literal", "char_literal", "escape_sequence"}

is_number_kind(kind) ==
    kind \in {"number", "integer", "float", "integer_literal",
              "float_literal", "hex_literal", "binary_literal",
              "octal_literal"}

KeywordKinds ==
    {"if", "else", "for", "while", "do", "switch", "case", "default",
     "break", "continue", "return", "throw", "try", "catch", "finally",
     "new", "delete", "typeof", "instanceof", "in", "of", "void", "yield",
     "await", "async", "class", "extends", "super", "import", "export",
     "from", "as", "const", "let", "var", "function", "static", "get",
     "set", "this", "with", "debugger", "interface", "type", "enum",
     "implements", "public", "private", "protected", "readonly",
     "abstract", "declare", "namespace", "module", "keyof", "infer",
     "satisfies", "fn", "impl", "trait", "struct", "match", "mut", "pub",
     "where", "use", "mod", "crate", "self", "Self", "let_statement",
     "func", "protocol", "guard", "defer", "repeat", "inout", "operator",
     "subscript", "init", "deinit", "associatedtype", "some", "any",
     "extension", "enum_declaration", "class_declaration", "func_literal",
     "def", "lambda", "elif", "except", "pass", "raise", "global",
     "nonlocal", "del", "assert", "True", "False", "None", "null",
     "undefined", "true", "false"}

is_keyword_kind(kind) == kind \in KeywordKinds

OperatorKinds ==
    {"+", "-", "*", "/", "%", "=", "==", "===", "!=", "!==", "<", ">",
     "<=", ">=", "&&", "||", "!", "&", "|", "^", "~", "<<", ">>", ">>>",
     "+=", "-=", "*=", "/=", "%=", "**", "??", "?.", "=>", "...", "++",
     "--", "?", ":", "->", "::", "@", "#"}

is_operator_kind(kind) == kind \in OperatorKinds

PunctuationKinds ==
    {"(", ")", "[", "]", "{", "}", ";", ",", ".", "<", ">", "/", "\\"}

is_punctuation_kind(kind) == kind \in PunctuationKinds

is_type_kind(kind) ==
    kind \in {"type_identifier", "predefined_type", "type_annotation",
              "type_alias_declaration", "primitive_type", "generic_type",
              "enum_variant", "tag_name"}

FunctionKinds ==
    {"function_item", "function_declaration", "function_definition",
     "method_definition", "method_declaration", "function_name",
     "constructor"}

FunctionContexts ==
    {<<"identifier", "function_declaration">>,
     <<"identifier", "method_definition">>,
     <<"identifier", "function_item">>,
     <<"identifier", "call_expression">>,
     <<"property_identifier", "function_declaration">>,
     <<"property_identifier", "method_definition">>}

\* is_function_kind with every Variable-family kind under a call_expression
\* as a second context.
is_function_kind_any_callee(kind, parent_kind) ==
    \/ kind \in FunctionKinds
    \/ <<kind, parent_kind>> \in FunctionContexts
    \/ /\ parent_kind = "call_expression"
       /\ kind \in {"identifier", "property_identifier", "field_identifier",
                    "attribute_name", "property_name", "variable_name",
                    "module_identifier"}

is_function_kind(kind, parent_kind) ==
    \/ kind \in FunctionKinds
    \/ <<kind, parent_kind>> \in FunctionContexts

VariableKinds ==
    {"identifier", "property_identifier", "field_identifier",
     "attribute_name", "property_name", "variable_name",
     "module_identifier"}

VariableParents ==
    {"pair", "object_pair", "assignment_expression", "lexical_declaration"}

is_variable_kind(kind, parent_kind) ==
    \/ kind \in VariableKinds
    \/ parent_kind \in VariableParents

\* classify_node with the Variable test as its last arm, in place of the
\* Plain fallback.
classify_node_no_fallback(kind, parent_kind) ==
    IF is_comment_kind(kind) THEN "Comment"
    ELSE IF is_string_kind(kind) THEN "String"
    ELSE IF is_number_kind(kind) THEN "Number"
    ELSE IF is_keyword_kind(kind) THEN "Keyword"
    ELSE IF is_operator_kind(kind) THEN "Operator"
    ELSE IF is_punctuation_kind(kind) THEN "Punctuation"
    ELSE IF is_type_kind(kind) THEN "Type"
    ELSE IF is_function_kind(kind, parent_kind) THEN "Function"
    ELSE "Variable"

\* classify_node with the Punctuation test before the Operator test.
classify_node_punctuation_first(kind, parent_kind) ==
    IF is_comment_kind(kind) THEN "Comment"
    ELSE IF is_string_kind(kind) THEN "String"
    ELSE IF is_number_kind(kind) THEN "Number"
    ELSE IF is_keyword_kind(kind) THEN "Keyword"
    ELSE IF is_punctuation_kind(kind) THEN "Punctuation"
    ELSE IF is_operator_kind(kind) THEN "Operator"
    ELSE IF is_type_kind(kind) THEN "Type"
    ELSE IF is_function_kind(kind, parent_kind) THEN "Function"
    ELSE IF is_variable_kind(kind, parent_kind) THEN "Variable"
    ELSE "Plain"

\* classify_node, on the node's kind and its parent's kind ("" at the root).
classify_node(kind, parent_kind) ==
    IF is_comment_kind(kind) THEN "Comment"
    ELSE IF is_string_kind(kind) THEN "String"
    ELSE IF is_number_kind(kind) THEN "Number"
    ELSE IF is_keyword_kind(kind) THEN "Keyword"
    ELSE IF is_operator_kind(kind) THEN "Operator"
    ELSE IF is_punctuation_kind(kind) THEN "Punctuation"
    ELSE IF is_type_kind(kind) THEN "Type"
    ELSE IF is_function_kind(kind, parent_kind) THEN "Function"
    ELSE IF is_variable_kind(kind, parent_kind) THEN "Variable"
    ELSE "Plain"

--------------------------------------------------------------------------
\* Syntax trees (tree_sitter::Node).  A node is
\*   [id, kind, s, e, children, fn]
\* with s..e its byte range (0-based, e exclusive), children its ordered
\* children and fn the position of the first child carrying the field name
\* "function" (0: none).  A leaf has no children.

\* The kind of the leaves of the drawn trees: one the generic classifier
\* never calls a Function.
LeafKinds == {"number"}

RECURSIVE Size(_), SizeSeq(_)
Size(n) == 1 + SizeSeq(n.children)

SizeSeq(cs) == IF cs = <<>> THEN 0 ELSE Size(Head(cs)) + SizeSeq(Tail(cs))

LeafNode(kind, s, e) ==
    [kind |-> kind, s |-> s, e |-> e, children |-> <<>>, fn |-> 0]

InnerNode(kind, cs, fn) ==
    [kind |-> kind, s |-> cs[1].s, e |-> cs[Len(cs)].e, children |-> cs,
     fn |-> fn]

\* The trees of at most k nodes whose leaves lie in lo..hi, and the ordered
\* non-overlapping sequences of such trees (k nodes in all).
RECURSIVE TreeSet(_, _, _), Forest(_, _, _)
TreeSet(k, lo, hi) ==
    IF k < 1 THEN {}
    ELSE {LeafNode(kind, r[1], r[2]) :
              kind \in LeafKinds,
              r \in {q \in (lo..hi) \X (lo..hi) : q[1] <= q[2]}}
         \cup
         UNION {{InnerNode("program", cs, 0)} \cup
                {InnerNode("call_expression", cs, fn) : fn \in 0..Len(cs)}
                : cs \in Forest(k - 1, lo, hi) \ {<<>>}}

Forest(k, lo, hi) ==
    {<<>>} \cup
    UNION {{<<t>> \o rest : rest \in Forest(k - Size(t), t.e, hi)}
           : t \in TreeSet(k, lo, hi)}

\* Node::id(): nodes numbered in pre-order from base.
RECURSIVE WithIds(_, _), SeqWithIds(_, _)
WithIds(n, base) ==
    [id |-> base, kind |-> n.kind, s |-> n.s, e |-> n.e,
     children |-> SeqWithIds(n.children, base + 1), fn |-> n.fn]

SeqWithIds(cs, base) ==
    IF cs = <<>> THEN <<>>
    ELSE <<WithIds(Head(cs), base)>>
         \o SeqWithIds(Tail(cs), base + Size(Head(cs)))

\* What parser.parse may return for a text.
Trees(text) == {WithIds(t, 1) : t \in TreeSet(MaxNodes, 0, Len(text))}

\* The tree of "foo(1)" under the JavaScript grammar:
\* program > expression_statement > call_expression
\*   > function: identifier, arguments > "(" number ")".
FooText == <<"f", "o", "o", "(", "1", ")">>

FooTree ==
    WithIds(
      InnerNode("program",
        <<InnerNode("expression_statement",
            <<InnerNode("call_expression",
                <<LeafNode("identifier", 0, 3),
                  InnerNode("arguments",
                    <<LeafNode("(", 3, 4), LeafNode("number", 4, 5),
                      LeafNode(")", 5, 6)>>, 0)>>, 1)>>, 0)>>, 0), 1)

\* The texts tokenize is called on directly, and those read_file returns.
SourceTexts == Texts \cup {FooText}

FileContents ==
    UNION {[1..n -> Bytes] : n \in 0..MaxFile} \cup {FooText}

\* The tree of the empty text: a root without children.
EmptyTree == WithIds(LeafNode("program", 0, 0), 1)

ParseTable ==
    [text \in SourceTexts \cup FileContents |->
        IF text = FooText THEN {FooTree}
        ELSE IF text = <<>> THEN Trees(text) \cup {EmptyTree}
        ELSE Trees(text)]

ParseResults(text) == ParseTable[text]

--------------------------------------------------------------------------
\* collect_tokens: what one node emits.

TokenSpan(line, start_col, end_col, token_type) ==
    [line |-> line, start_col |-> start_col, end_col |-> end_col,
     token_type |-> token_type]

\* str::split('\n').
RECURSIVE Split(_)
Split(txt) ==
    IF \E i \in 1..Len(txt) : txt[i] = NL
    THEN LET i == CHOOSE j \in 1..Len(txt) :
                      txt[j] = NL /\ \A k \in 1..(j - 1) : txt[k] # NL
         IN  <<SubSeq(txt, 1, i - 1)>> \o Split(SubSeq(txt, i + 1, Len(txt)))
    ELSE <<txt>>

\* Node::utf8_text.
utf8_text(text, node) == SubSeq(text, node.s + 1, node.e)

\* The fragment loop with break in place of continue: it ends at the
\* first empty fragment.
RECURSIVE FragmentSpansBreak(_, _, _, _, _)
FragmentSpansBreak(frs, i, start_row, start_column, token_type) ==
    IF frs = <<>> \/ Len(Head(frs)) = 0 THEN <<>>
    ELSE LET start_col == IF i = 0 THEN start_column ELSE 0
         IN  <<TokenSpan(start_row + i + 1, start_col,
                         start_col + Len(Head(frs)), token_type)>>
             \o FragmentSpansBreak(Tail(frs), i + 1, start_row,
                                   start_column, token_type)

\* The fragment loop with the leaf's start column for every fragment.
RECURSIVE FragmentSpansKeepColumn(_, _, _, _, _)
FragmentSpansKeepColumn(frs, i, start_row, start_column, token_type) ==
    IF frs = <<>> THEN <<>>
    ELSE LET rest == FragmentSpansKeepColumn(Tail(frs), i + 1, start_row,
                                             start_column, token_type)
         IN  IF Len(Head(frs)) = 0 THEN rest
             ELSE <<TokenSpan(start_row + i + 1, start_column,
                              start_column + Len(Head(frs)), token_type)>>
                  \o rest

\* The fragment loop over the fragments in reverse (split('\n').rev()).
RECURSIVE FragmentSpansDescending(_, _, _, _, _)
FragmentSpansDescending(frs, i, start_row, start_column, token_type) ==
    IF frs = <<>> THEN <<>>
    ELSE LET rest == FragmentSpansDescending(Tail(frs), i + 1, start_row,
                                             start_column, token_type)
             start_col == IF i = 0 THEN start_column ELSE 0
         IN  IF Len(Head(frs)) = 0 THEN rest
             ELSE rest \o <<TokenSpan(start_row + i + 1, start_col,
                                      start_col + Len(Head(frs)),
                                      token_type)>>

\* The loop over the fragments of a multi-line leaf; i is the 0-based index
\* of the first fragment of frs.
RECURSIVE FragmentSpans(_, _, _, _, _)
FragmentSpans(frs, i, start_row, start_column, token_type) ==
    IF frs = <<>> THEN <<>>
    ELSE LET line == Head(frs)
             rest == FragmentSpans(Tail(frs), i + 1, start_row, start_column,
                                   token_type)
         IN  IF Len(line) = 0 THEN rest
             ELSE LET line_num == start_row + i + 1
                      start_col == IF i = 0 THEN start_column ELSE 0
                      end_col == start_col + Len(line)
                  IN  <<TokenSpan(line_num, start_col, end_col, token_type)>>
                      \o rest

\* The leaf branch.
LeafSpans(text, node, parent_kind) ==
    LET start_row == Row(text, node.s)
        start_column == Col(text, node.s)
        end_row == Row(text, node.e)
        end_column == Col(text, node.e)
        token_type == classify_node(node.kind, parent_kind)
    IN  IF start_row # end_row
        THEN FragmentSpans(Split(utf8_text(text, node)), 0, start_row,
                           start_column, token_type)
        ELSE <<TokenSpan(start_row + 1, start_column, end_column, token_type)>>

\* The callee's span with the generic classifier's category.
CalleeSpanClassified(text, func_node) ==
    TokenSpan(Row(text, func_node.s) + 1, Col(text, func_node.s),
              Col(text, func_node.e),
              classify_node(func_node.kind, "call_expression"))

\* The span pushed for the leaf callee of a call_expression.
CalleeSpan(text, func_node) ==
    TokenSpan(Row(text, func_node.s) + 1, Col(text, func_node.s),
              Col(text, func_node.e), "Function")

\* node.child_by_field_name("function") is a leaf.
HasLeafCallee(node) ==
    /\ node.kind = "call_expression"
    /\ node.fn # 0
    /\ node.children[node.fn].children = <<>>

\* The recursion without the test child.id() != func_node.id().
CallChildrenAll(node) == 1..Len(node.children)

\* The children collect_tokens recurses into, as positions of node.children.
CallChildren(node) == {i \in 1..Len(node.children) : i # node.fn}

AllChildren(node) == 1..Len(node.children)

\* The children visited from the last to the first.
RECURSIVE FramesReversed(_, _, _)
FramesReversed(node, idx, i) ==
    IF i > Len(node.children) THEN <<>>
    ELSE FramesReversed(node, idx, i + 1)
         \o (IF i \in idx
             THEN <<[node |-> node.children[i], parent_kind |-> node.kind]>>
             ELSE <<>>)

\* The frames of the recursive calls on the children at positions idx, in
\* child order.
RECURSIVE Frames(_, _, _)
Frames(node, idx, i) ==
    IF i > Len(node.children) THEN <<>>
    ELSE (IF i \in idx
          THEN <<[node |-> node.children[i], parent_kind |-> node.kind]>>
          ELSE <<>>) \o Frames(node, idx, i + 1)

--------------------------------------------------------------------------
\* detect_language.  A path is a sequence of one-character strings.

PathBytes == {"a", ".", "/", "r", "s", "R"}

UpperCase ==
    <<"A", "B", "C", "D", "E", "F", "G", "H", "I", "J", "K", "L", "M",
      "N", "O", "P", "Q", "R", "S", "T", "U", "V", "W", "X", "Y", "Z">>

LowerCase ==
    <<"a", "b", "c", "d", "e", "f", "g", "h", "i", "j", "k", "l", "m",
      "n", "o", "p", "q", "r", "s", "t", "u", "v", "w", "x", "y", "z">>

to_ascii_lowercase(str) ==
    [i \in 1..Len(str) |->
        IF \E k \in 1..26 : UpperCase[k] = str[i]
        THEN LowerCase[CHOOSE k \in 1..26 : UpperCase[k] = str[i]]
        ELSE str[i]]

\* path.rsplit('.').next(): what follows the last '.', the whole path when
\* it holds none.
LastSegment(path) ==
    LET dots == {i \in 1..Len(path) : path[i] = "."}
    IN  IF dots = {} THEN path
        ELSE SubSeq(path, SetMax(dots) + 1, Len(path))

ExtTable ==
    {<<<<"t", "s">>, "typescript">>, <<<<"t", "s", "x">>, "typescript">>,
     <<<<"j", "s">>, "javascript">>, <<<<"j", "s", "x">>, "javascript">>,
     <<<<"m", "j", "s">>, "javascript">>, <<<<"c", "j", "s">>, "javascript">>,
     <<<<"j", "s", "o", "n">>, "json">>,
     <<<<"y", "a", "m", "l">>, "yaml">>, <<<<"y", "m", "l">>, "yaml">>,
     <<<<"s", "w", "i", "f", "t">>, "swift">>,
     <<<<"r", "s">>, "rust">>,
     <<<<"d", "a", "r", "t">>, "dart">>,
     <<<<"h", "t", "m", "l">>, "html">>, <<<<"h", "t", "m">>, "html">>,
     <<<<"c", "s", "s">>, "css">>,
     <<<<"p", "y">>, "python">>}

\* "" stands for None.
detect_language(path) ==
    LET ext == to_ascii_lowercase(LastSegment(path))
    IN  IF \E r \in ExtTable : r[1] = ext
        THEN (CHOOSE r \in ExtTable : r[1] = ext)[2]
        ELSE ""

\* The languages tokenize has a grammar for.
SupportedLanguages ==
    {"typescript", "javascript", "json", "yaml", "swift", "rust", "dart",
     "html", "css", "python"}

\* Paths of the repository's tests: test.js, test.ts, test.rs, test.txt
\* and no_extension.
SamplePaths ==
    {<<"t", "e", "s", "t", ".", "j", "s">>,
     <<"t", "e", "s", "t", ".", "t", "s">>,
     <<"t", "e", "s", "t", ".", "r", "s">>,
     <<"t", "e", "s", "t", ".", "t", "x", "t">>,
     <<"n", "o", "_", "e", "x", "t", "e", "n", "s", "i", "o", "n">>}

Paths == UNION {[1..n -> PathBytes] : n \in 0..MaxPath} \cup SamplePaths

\* A filter that takes its input to be sorted by line: it skips the lines
\* before lo and stops at the first line after hi.
RECURSIVE TakeUpTo(_, _)
TakeUpTo(toks, hi) ==
    IF toks = <<>> \/ Head(toks).line > hi THEN <<>>
    ELSE <<Head(toks)>> \o TakeUpTo(Tail(toks), hi)

RECURSIVE SkipBefore(_, _)
SkipBefore(toks, lo) ==
    IF toks = <<>> \/ Head(toks).line >= lo THEN toks
    ELSE SkipBefore(Tail(toks), lo)

RangeFilterSorted(toks, lo, hi) == TakeUpTo(SkipBefore(toks, lo), hi)

\* The filter of highlight_range.
RangeFilter(toks, lo, hi) ==
    SelectSeq(toks, LAMBDA t : t.line >= lo /\ t.line <= hi)

--------------------------------------------------------------------------
\* Results: Result<Vec<TokenSpan>, _>.
NoResult == [tag |-> "none", tokens |-> <<>>, reason |-> ""]

Ok(toks) == [tag |-> "ok", tokens |-> toks, reason |-> ""]

Err(reason) == [tag |-> "err", tokens |-> <<>>, reason |-> reason]

NoTree == WithIds(LeafNode("", 0, 0), 0)

\* What tokenize gets from the grammar provider: an error, or a tree.
TokenizeOutcomes(text, lang) ==
    IF lang \notin SupportedLanguages
    THEN {[tag |-> "err", reason |-> "unsupported language", tree |-> NoTree]}
    ELSE {[tag |-> "err", reason |-> "set_language", tree |-> NoTree],
          [tag |-> "err", reason |-> "parse", tree |-> NoTree]}
         \cup {[tag |-> "tree", reason |-> "", tree |-> t] :
                   t \in ParseResults(text)}

\* What read_file finds at a path: no file, no regular file, a file that
\* cannot be read, or the file's text (FileContents).
ReadOutcomes ==
    {[status |-> st, text |-> <<>>] :
         st \in {"missing", "notfile", "unreadable"}}
    \cup {[status |-> "read", text |-> t] : t \in FileContents}

ReadError(status) ==
    CASE status = "missing" -> "file does not exist"
      [] status = "notfile" -> "path is not a file"
      [] OTHER -> "file read error"

Lines == 1..MaxLine

\* The languages tokenize is called with directly: one it has a grammar
\* for and one it has none for.
Languages == {"javascript", "kotlin"}

\* The kinds classify_node is checked on: those of the tables, and kinds in
\* none of them.
AllKinds ==
    {"comment", "line_comment", "block_comment", "html_comment",
     "string", "string_fragment", "template_string",
     "template_literal_type", "interpreted_string_literal",
     "raw_string_literal", "char_literal", "escape_sequence",
     "number", "integer", "float", "integer_literal", "float_literal",
     "hex_literal", "binary_literal", "octal_literal",
     "type_identifier", "predefined_type", "type_annotation",
     "type_alias_declaration", "primitive_type", "generic_type",
     "enum_variant", "tag_name"}
    \cup KeywordKinds \cup OperatorKinds \cup PunctuationKinds
    \cup FunctionKinds \cup VariableKinds
    \cup {"program", "arguments", "ERROR", "text", ""}

AllParents ==
    {p[2] : p \in FunctionContexts} \cup VariableParents
    \cup {"program", "arguments", "member_expression", ""}

--------------------------------------------------------------------------
VARIABLES
    pc,          \* where the running call stands
    caller,      \* "tokenize" (called directly), "highlight_range" or ""
    path,        \* highlight_range's path, until read_file takes it
    start_line,  \* highlight_range's range
    end_line,
    language,    \* highlight_range's language, until tokenize takes it
    file_status, \* what the file access found ("untouched": no access yet)
    content,     \* the source text
    tree,        \* the parsed tree
    stack,       \* the pending calls of collect_tokens, innermost first
    tokens,      \* tokenize's Vec<TokenSpan>
    origin,      \* history: the id of the node each token was pushed for
    tok_result,  \* what tokenize returned
    result,      \* what highlight_range returned
    cls          \* classify_node's input and result

vars ==
    <<pc, caller, path, start_line, end_line, language, file_status,
      content, tree, stack, tokens, origin, tok_result, result, cls>>

--------------------------------------------------------------------------
\* core_git: blame_commit_diff and its diff cache.

MaxCalls == 3

\* The threads that call blame_commit_diff.
Threads == {1, 2}

\* The arguments of the calls: revisions and file paths, blank ones among
\* them.
Commits == {<<"a">>, <<"a", ":">>, <<" ">>}

FilePaths == {<<"a">>, <<":", "a">>, <<>>}

Whitespace == {" ", "\t", NL}

\* str::trim().is_empty()
IsBlank(s) == \A i \in 1..Len(s) : s[i] \in Whitespace

\* format!("{commit}::{file_path}")
cache_key(commit, file_path) == commit \o <<":", ":">> \o file_path

CacheKeys == {cache_key(c, p) : c \in Commits, p \in FilePaths}

BlameDiff(commit, file_path, diff_text) ==
    [commit |-> commit, path |-> file_path, diff_text |-> diff_text]

\* What running git show gives: the process cannot be run, it exits
\* unsuccessfully, or it exits successfully with its standard output.
GitShowOutcomes ==
    {[status |-> "spawn_failed", stdout |-> <<>>],
     [status |-> "exit_failed", stdout |-> <<>>],
     [status |-> "success", stdout |-> <<>>],
     [status |-> "success", stdout |-> <<NL>>],
     [status |-> "success", stdout |-> <<"d">>]}

GitShowError(out) ==
    IF out.status = "spawn_failed" THEN "git spawn"
    ELSE IF out.status = "exit_failed" THEN "git show"
    ELSE "no diff"

NoDiff == BlameDiff(<<>>, <<>>, <<>>)

NoDiffResult == [tag |-> "none", diff |-> NoDiff, reason |-> ""]

DiffOk(d) == [tag |-> "ok", diff |-> d, reason |-> ""]

DiffErr(reason) == [tag |-> "err", diff |-> NoDiff, reason |-> reason]

NoCall ==
    [pc |-> "idle", file_path |-> <<>>, commit |-> <<>>,
     diff_text |-> <<>>, result |-> NoDiffResult]

\* An insert into a cache that keeps one entry only.
CacheInsertAlone(cache, key, diff) == [k \in {key} |-> diff]

\* HashMap::insert
CacheInsert(cache, key, diff) ==
    [k \in DOMAIN cache \cup {key} |-> IF k = key THEN diff ELSE cache[k]]

--------------------------------------------------------------------------
\* core_git: blame_file and parse_porcelain; core_api: blame_range.

MaxPorcelain == 3

\* The length of a commit hash in a header line, and of its short form.
HashLen == 40

ShortLen == 7

TAB == "\t"

Digits == <<"0", "1", "2", "3", "4", "5", "6", "7", "8", "9">>

DigitChars == {Digits[i] : i \in 1..10}

\* char::is_ascii_hexdigit
HexDigits == DigitChars \cup {"a", "b", "c", "d", "e", "f",
                              "A", "B", "C", "D", "E", "F"}

DigitValue(c) == (CHOOSE i \in 1..10 : Digits[i] = c) - 1

BlameLine(line, author, author_time, summary, commit) ==
    [line |-> line, author |-> author, author_time |-> author_time,
     summary |-> summary, commit |-> commit]

\* str::trim_end
RECURSIVE trim_end(_)
trim_end(s) ==
    IF s # <<>> /\ s[Len(s)] \in Whitespace
    THEN trim_end(SubSeq(s, 1, Len(s) - 1))
    ELSE s

\* str::split_whitespace: the maximal runs of non-whitespace characters.
RECURSIVE split_whitespace(_)
split_whitespace(s) ==
    IF s = <<>> THEN <<>>
    ELSE IF Head(s) \in Whitespace THEN split_whitespace(Tail(s))
    ELSE LET stops == {i \in 1..Len(s) : s[i] \in Whitespace}
             n == IF stops = {} THEN Len(s)
                  ELSE (CHOOSE i \in stops : \A j \in stops : i <= j) - 1
         IN  <<SubSeq(s, 1, n)>>
                 \o split_whitespace(SubSeq(s, n + 1, Len(s)))

\* str::starts_with
starts_with(s, prefix) ==
    Len(s) >= Len(prefix) /\ SubSeq(s, 1, Len(prefix)) = prefix

\* What str::strip_prefix leaves of s, for a prefix s starts with.
strip_prefix(s, prefix) == SubSeq(s, Len(prefix) + 1, Len(s))

\* The value of a decimal numeral.
RECURSIVE Decimal(_)
Decimal(s) ==
    IF s = <<>> THEN 0
    ELSE 10 * Decimal(SubSeq(s, 1, Len(s) - 1)) + DigitValue(s[Len(s)])

\* str::parse::<u32>() succeeds: an optional '+', then digits.  The
\* numerals of the model are short, so none is out of u32's range.
IsU32(s) ==
    LET d == IF s # <<>> /\ Head(s) = "+" THEN Tail(s) ELSE s
    IN  d # <<>> /\ \A i \in 1..Len(d) : d[i] \in DigitChars

\* str::parse::<u32>(), where it succeeds
parse_u32(s) == Decimal(IF Head(s) = "+" THEN Tail(s) ELSE s)

\* str::parse::<i64>().unwrap_or(0)
parse_i64_or_0(s) ==
    LET sign == IF s # <<>> /\ Head(s) \in {"+", "-"} THEN Head(s) ELSE ""
        d == IF sign = "" THEN s ELSE Tail(s)
    IN  IF d = <<>> \/ \E i \in 1..Len(d) : d[i] \notin DigitChars THEN 0
        ELSE IF sign = "-" THEN 0 - Decimal(d)
        ELSE Decimal(d)

AuthorPrefix == <<"a", "u", "t", "h", "o", "r", " ">>

AuthorTimePrefix ==
    <<"a", "u", "t", "h", "o", "r", "-", "t", "i", "m", "e", " ">>

SummaryPrefix == <<"s", "u", "m", "m", "a", "r", "y", " ">>

\* The header test of parse_porcelain on a trimmed line: at least three
\* fields, the first of them 40 hex digits.
IsHeader(header) ==
    LET parts == split_whitespace(header)
    IN  /\ Len(parts) >= 3
        /\ Len(parts[1]) = HashLen
        /\ \A i \in 1..Len(parts[1]) : parts[1][i] \in HexDigits

\* The loop over the metadata lines: lines.by_ref() from position i, up to
\* and with the first line that starts with a TAB.  Gives the entry and the
\* position of the next line to read.
RECURSIVE Metadata(_, _, _)
Metadata(lines, i, entry) ==
    IF i > Len(lines) THEN [entry |-> entry, next |-> i]
    ELSE LET line == lines[i]
         IN  IF starts_with(line, <<TAB>>)
             THEN [entry |-> entry, next |-> i + 1]
             ELSE IF starts_with(line, AuthorPrefix)
             THEN Metadata(lines, i + 1,
                      [entry EXCEPT
                          !.author = strip_prefix(line, AuthorPrefix)])
             ELSE IF starts_with(line, AuthorTimePrefix)
             THEN Metadata(lines, i + 1,
                      [entry EXCEPT
                          !.author_time = parse_i64_or_0(
                              strip_prefix(line, AuthorTimePrefix))])
             ELSE IF starts_with(line, SummaryPrefix)
             THEN Metadata(lines, i + 1,
                      [entry EXCEPT
                          !.summary = strip_prefix(line, SummaryPrefix)])
             ELSE Metadata(lines, i + 1, entry)

BlameOk(ls) == [tag |-> "ok", lines |-> ls]

BlameErr == [tag |-> "err", lines |-> <<>>]

NoBlame == [tag |-> "none", lines |-> <<>>]

\* The outer loop of parse_porcelain from position i.
RECURSIVE ParseFrom(_, _, _)
ParseFrom(lines, i, results) ==
    IF i > Len(lines) THEN BlameOk(results)
    ELSE LET header == trim_end(lines[i])
             parts == split_whitespace(header)
         IN  IF header = <<>> \/ ~IsHeader(header)
             THEN ParseFrom(lines, i + 1, results)
             ELSE IF ~IsU32(parts[3]) THEN BlameErr
             ELSE LET m == Metadata(lines, i + 1,
                               BlameLine(parse_u32(parts[3]), <<>>, 0, <<>>,
                                         SubSeq(parts[1], 1, ShortLen)))
                  IN  ParseFrom(lines, m.next, Append(results, m.entry))

\* parse_porcelain on the lines of its input (str::lines).
parse_porcelain(lines) == ParseFrom(lines, 1, <<>>)

\* A commit hash: 40 times the hex digit c.
Hash(c) == [i \in 1..HashLen |-> c]

\* The lines git's output is drawn from: header lines (well-formed, with a
\* fourth field, behind a TAB, with a line number that is no number, with
\* two fields, with a hash that is not hex or not 40 long), metadata
\* lines, a content line and an empty line.
SampleLines ==
    {Hash("a") \o <<" ", "1", " ", "1">>,
     Hash("b") \o <<" ", "1", " ", "2", " ", "1">>,
     <<TAB>> \o Hash("a") \o <<" ", "1", " ", "2">>,
     Hash("a") \o <<" ", "1", " ", "x">>,
     Hash("a") \o <<" ", "1">>,
     Hash("g") \o <<" ", "1", " ", "1">>,
     <<"a", "b", "c", " ", "1", " ", "1">>,
     <<"a", "u", "t", "h", "o", "r", " ", "A">>,
     <<"a", "u", "t", "h", "o", "r", "-", "t", "i", "m", "e", " ", "7">>,
     <<"s", "u", "m", "m", "a", "r", "y", " ", "s">>,
     <<TAB, "x">>,
     <<>>}

Porcelains == UNION {[1..n -> SampleLines] : n \in 0..MaxPorcelain}

\* What running git blame gives: the process cannot be run, it exits
\* unsuccessfully, or it exits successfully with its standard output.
GitBlameOutcomes ==
    {[status |-> st, stdout |-> <<>>] : st \in {"spawn_failed", "exit_failed"}}
    \cup {[status |-> "success", stdout |-> o] : o \in Porcelains}

NoGitBlame == [status |-> "none", stdout |-> <<>>]

\* blame_range with the error of blame_file passed on.
BlameFilterStrict(res, lo, hi) ==
    IF res.tag = "err" THEN BlameErr
    ELSE BlameOk(SelectSeq(res.lines,
                           LAMBDA bl : bl.line >= lo /\ bl.line <= hi))

\* The match of blame_range on what blame_file returned.
BlameFilter(res, lo, hi) ==
    IF res.tag = "err" THEN BlameOk(<<>>)
    ELSE BlameOk(SelectSeq(res.lines,
                           LAMBDA bl : bl.line >= lo /\ bl.line <= hi))

--------------------------------------------------------------------------
\* core_fs: list_dir.

MaxName == 1

MaxEntries == 3

\* The characters of a file name, in the order of their bytes.
NameChars == <<"A", "B", "a", "b">>

ByteOf(c) == CHOOSE i \in 1..Len(NameChars) : NameChars[i] = c

Names == UNION {[1..n -> {NameChars[i] : i \in 1..Len(NameChars)}] :
                    n \in 1..MaxName}

\* Ord for str: the comparison of the bytes, a proper prefix first.
RECURSIVE StrLess(_, _)
StrLess(a, b) ==
    IF b = <<>> THEN FALSE
    ELSE IF a = <<>> THEN TRUE
    ELSE IF Head(a) # Head(b) THEN ByteOf(Head(a)) < ByteOf(Head(b))
    ELSE StrLess(Tail(a), Tail(b))

\* str::to_lowercase (the names of the model are ASCII).
to_lowercase(name) == to_ascii_lowercase(name)

NodeKind == {"File", "Dir"}

\* A FileNode (its id is a hash of its path).
FileNode(name, kind) ==
    [path |-> <<"/">> \o name, name |-> name, kind |-> kind]

\* The walker's entry for the listed directory itself (depth 0).
RootEntry == [path |-> <<>>, name |-> <<>>, kind |-> "Dir"]

\* What the walker may yield after the entries of done: the listed
\* directory itself first, then its entries, files and directories, in the
\* order of their paths (sort_by_file_path(|a, b| a.cmp(b))).
NextEntries(done) ==
    IF done = <<>> THEN {RootEntry}
    ELSE IF Len(done) > MaxEntries THEN {}
    ELSE {FileNode(n, k) :
              n \in {m \in Names : StrLess(done[Len(done)].name, m)},
              k \in NodeKind}

dir_order(kind) == IF kind = "Dir" THEN 0 ELSE 1

\* A comparison by the names as they are, without to_lowercase.
NodeLessCased(a, b) ==
    \/ dir_order(a.kind) < dir_order(b.kind)
    \/ /\ dir_order(a.kind) = dir_order(b.kind)
       /\ StrLess(a.name, b.name)

\* The comparison of nodes.sort_by gives Less.
NodeLess(a, b) ==
    \/ dir_order(a.kind) < dir_order(b.kind)
    \/ /\ dir_order(a.kind) = dir_order(b.kind)
       /\ StrLess(to_lowercase(a.name), to_lowercase(b.name))

\* x put into a sorted sequence behind the elements it is not less than.
RECURSIVE InsertSorted(_, _)
InsertSorted(sorted, x) ==
    IF sorted = <<>> THEN <<x>>
    ELSE IF NodeLess(x, sorted[Len(sorted)])
    THEN Append(InsertSorted(SubSeq(sorted, 1, Len(sorted) - 1), x),
                sorted[Len(sorted)])
    ELSE Append(sorted, x)

\* slice::sort_by: a stable sort.
RECURSIVE sort_by(_)
sort_by(ns) ==
    IF ns = <<>> THEN <<>>
    ELSE InsertSorted(sort_by(SubSeq(ns, 1, Len(ns) - 1)), ns[Len(ns)])

\* What list_dir finds at its paths before it walks.
DirChecks == {"root_missing", "dir_missing", "not_dir", "ok"}

FsOk(ns) == [tag |-> "ok", nodes |-> ns]

FsErr == [tag |-> "err", nodes |-> <<>>]

NoFsResult == [tag |-> "none", nodes |-> <<>>]

\* The diff cache of core_git and the running calls of blame_commit_diff.
VARIABLES
    diff_cache,  \* DIFF_CACHE: the BlameDiff stored under each key
    calls,       \* each thread's call of blame_commit_diff
    shows,       \* history: the git show runs that gave a diff, per
                 \* commit and file path
    ncalls       \* history: the calls made so far

git_vars == <<diff_cache, calls, shows, ncalls>>

\* blame_range and blame_file.
VARIABLES
    blame_pc,     \* where the call of blame_range stands
    blame_args,   \* blame_range's start_line and end_line
    git_blame,    \* what the git blame process gave
    blame_lines,  \* what blame_file returned
    blame_result  \* what blame_range returned

blame_vars == <<blame_pc, blame_args, git_blame, blame_lines, blame_result>>

\* list_dir.
VARIABLES
    fs_pc,      \* where the call of list_dir stands
    yielded,    \* the entries the walker has yielded
    nodes,      \* list_dir's Vec<FileNode>
    fs_result   \* what list_dir returned

fs_vars == <<fs_pc, yielded, nodes, fs_result>>

\* The variables of the other entry points.
others == <<git_vars, blame_vars, fs_vars>>

all_vars == <<vars, others>>

GitInit ==
    /\ diff_cache = <<>>
    /\ calls = [t \in Threads |-> NoCall]
    /\ shows = [call \in Commits \X FilePaths |-> 0]
    /\ ncalls = 0

BlameInit ==
    /\ blame_pc = "idle"
    /\ blame_args = [start_line |-> 0, end_line |-> 0]
    /\ git_blame = NoGitBlame
    /\ blame_lines = NoBlame
    /\ blame_result = NoBlame

FsInit ==
    /\ fs_pc = "idle"
    /\ yielded = <<>>
    /\ nodes = <<>>
    /\ fs_result = NoFsResult

OthersInit == GitInit /\ BlameInit /\ FsInit

NoCls == [kind |-> "", parent_kind |-> "", token_type |-> ""]

Init ==
    /\ pc = "idle"
    /\ caller = ""
    /\ path = <<>>
    /\ start_line = 0
    /\ end_line = 0
    /\ language = ""
    /\ file_status = "untouched"
    /\ content = <<>>
    /\ tree = NoTree
    /\ stack = <<>>
    /\ tokens = <<>>
    /\ origin = <<>>
    /\ tok_result = NoResult
    /\ result = NoResult
    /\ cls = NoCls
    /\ OthersInit

\* tokenize, up to its call of collect_tokens on the root.
TokenizeEnter(text, lang) ==
    \E out \in TokenizeOutcomes(text, lang) :
        /\ content' = text
        /\ tokens' = <<>>
        /\ origin' = <<>>
        /\ tree' = out.tree
        /\ stack' = IF out.tag = "tree"
                    THEN <<[node |-> out.tree, parent_kind |-> ""]>>
                    ELSE <<>>
        /\ tok_result' = IF out.tag = "tree" THEN NoResult
                         ELSE Err(out.reason)
        /\ pc' = IF out.tag = "tree" THEN "walk" ELSE "tokenized"

\* tokenize called on its own.
tokenize ==
    /\ pc = "idle"
    /\ \E text \in SourceTexts, lang \in Languages :
           TokenizeEnter(text, lang)
    /\ caller' = "tokenize"
    /\ UNCHANGED others
    /\ UNCHANGED <<path, start_line, end_line, language, file_status,
                   result, cls>>

\* collect_tokens on a leaf.
collect_leaf ==
    /\ pc = "walk"
    /\ stack # <<>>
    /\ LET top == Head(stack)
           spans == LeafSpans(content, top.node, top.parent_kind)
       IN  /\ top.node.children = <<>>
           /\ tokens' = tokens \o spans
           /\ origin' = origin \o [i \in 1..Len(spans) |-> top.node.id]
           /\ stack' = Tail(stack)
    /\ UNCHANGED others
    /\ UNCHANGED <<pc, caller, path, start_line, end_line, language,
                   file_status, content, tree, tok_result, result, cls>>

\* collect_tokens on a call_expression whose callee is a leaf.
collect_call ==
    /\ pc = "walk"
    /\ stack # <<>>
    /\ LET node == Head(stack).node
       IN  /\ node.children # <<>>
           /\ HasLeafCallee(node)
           /\ tokens' = Append(tokens,
                               CalleeSpan(content, node.children[node.fn]))
           /\ origin' = Append(origin, node.children[node.fn].id)
           /\ stack' = Frames(node, CallChildren(node), 1) \o Tail(stack)
    /\ UNCHANGED others
    /\ UNCHANGED <<pc, caller, path, start_line, end_line, language,
                   file_status, content, tree, tok_result, result, cls>>

\* collect_tokens on any other node.
collect_children ==
    /\ pc = "walk"
    /\ stack # <<>>
    /\ LET node == Head(stack).node
       IN  /\ node.children # <<>>
           /\ ~HasLeafCallee(node)
           /\ stack' = Frames(node, AllChildren(node), 1) \o Tail(stack)
    /\ UNCHANGED others
    /\ UNCHANGED <<pc, caller, path, start_line, end_line, language,
                   file_status, content, tree, tokens, origin, tok_result,
                   result, cls>>

\* tokenize returns Ok(tokens) once collect_tokens has returned.
tokenize_return ==
    /\ pc = "walk"
    /\ stack = <<>>
    /\ tok_result' = Ok(tokens)
    /\ pc' = "tokenized"
    /\ UNCHANGED others
    /\ UNCHANGED <<caller, path, start_line, end_line, language,
                   file_status, content, tree, stack, tokens, origin,
                   result, cls>>

\* highlight_range reading the file whatever the resolver said.
highlight_range_reads_first ==
    /\ pc = "idle"
    /\ \E p \in Paths, lo \in Lines, hi \in Lines :
           /\ path' = p
           /\ start_line' = lo
           /\ end_line' = hi
           /\ language' = detect_language(p)
    /\ result' = NoResult
    /\ pc' = "read"
    /\ caller' = "highlight_range"
    /\ UNCHANGED others
    /\ UNCHANGED <<file_status, content, tree, stack, tokens, origin,
                   tok_result, cls>>

\* highlight_range, up to the language's resolution.
highlight_range ==
    /\ pc = "idle"
    /\ \E p \in Paths, lo \in Lines, hi \in Lines :
           LET lang == detect_language(p)
           IN  /\ path' = p
               /\ start_line' = lo
               /\ end_line' = hi
               /\ language' = lang
               /\ result' = IF lang = "" THEN Ok(<<>>) ELSE NoResult
               /\ pc' = IF lang = "" THEN "done" ELSE "read"
    /\ caller' = "highlight_range"
    /\ UNCHANGED others
    /\ UNCHANGED <<file_status, content, tree, stack, tokens, origin,
                   tok_result, cls>>

\* read_file(path)?, called by highlight_range.
read_file ==
    /\ pc = "read"
    /\ \E out \in ReadOutcomes :
           /\ file_status' = out.status
           /\ content' = out.text
           /\ result' = IF out.status = "read" THEN NoResult
                        ELSE Err(ReadError(out.status))
           /\ pc' = IF out.status = "read" THEN "tokenize" ELSE "done"
    /\ path' = <<>>
    /\ UNCHANGED others
    /\ UNCHANGED <<caller, start_line, end_line, language, tree, stack,
                   tokens, origin, tok_result, cls>>

\* highlight_range calls tokenize(&content, language).
highlight_tokenize ==
    /\ pc = "tokenize"
    /\ TokenizeEnter(content, language)
    /\ language' = ""
    /\ UNCHANGED others
    /\ UNCHANGED <<caller, path, start_line, end_line, file_status, result,
                   cls>>

\* highlight_range with unwrap_or_default() on tokenize's result.
highlight_return_swallows ==
    /\ pc = "tokenized"
    /\ caller = "highlight_range"
    /\ result' = Ok(RangeFilter(tok_result.tokens, start_line, end_line))
    /\ pc' = "done"
    /\ UNCHANGED others
    /\ UNCHANGED <<caller, path, start_line, end_line, language,
                   file_status, content, tree, stack, tokens, origin,
                   tok_result, cls>>

\* highlight_range, from tokenize's return: map_err(core_error)?, then the
\* filter.
highlight_return ==
    /\ pc = "tokenized"
    /\ caller = "highlight_range"
    /\ result' = IF tok_result.tag = "err" THEN Err(tok_result.reason)
                 ELSE Ok(RangeFilter(tok_result.tokens, start_line, end_line))
    /\ pc' = "done"
    /\ UNCHANGED others
    /\ UNCHANGED <<caller, path, start_line, end_line, language,
                   file_status, content, tree, stack, tokens, origin,
                   tok_result, cls>>

\* classify_node applied to an input.
classify ==
    /\ pc = "classify"
    /\ cls' = [cls EXCEPT
                 !.token_type = classify_node(cls.kind, cls.parent_kind)]
    /\ pc' = "classified"
    /\ UNCHANGED others
    /\ UNCHANGED <<caller, path, start_line, end_line, language,
                   file_status, content, tree, stack, tokens, origin,
                   tok_result, result>>

Walk == collect_leaf \/ collect_call \/ collect_children \/ tokenize_return

\* highlight_range and what it calls.
Next ==
    \/ highlight_range
    \/ read_file
    \/ highlight_tokenize
    \/ Walk
    \/ highlight_return

Spec == Init /\ [][Next]_all_vars

\* tokenize on its own.
NextTokenize == tokenize \/ Walk

SpecTokenize == Init /\ [][NextTokenize]_all_vars

\* classify_node on its own.
InitClassify ==
    /\ pc = "classify"
    /\ caller = ""
    /\ path = <<>>
    /\ start_line = 0
    /\ end_line = 0
    /\ language = ""
    /\ file_status = "untouched"
    /\ content = <<>>
    /\ tree = NoTree
    /\ stack = <<>>
    /\ tokens = <<>>
    /\ origin = <<>>
    /\ tok_result = NoResult
    /\ result = NoResult
    /\ cls \in [kind : AllKinds, parent_kind : AllParents, token_type : {""}]
    /\ OthersInit

NextClassify == classify

SpecClassify == InitClassify /\ [][NextClassify]_all_vars

--------------------------------------------------------------------------
\* blame_commit_diff, one call per thread at a time.

\* The call, up to the checks of its arguments.
blame_commit_diff(t) ==
    /\ calls[t].pc = "idle"
    /\ ncalls < MaxCalls
    /\ \E file_path \in FilePaths, commit \in Commits :
           calls' = [calls EXCEPT ![t] =
               [pc |-> IF IsBlank(file_path) \/ IsBlank(commit)
                       THEN "done" ELSE "lookup",
                file_path |-> file_path,
                commit |-> commit,
                diff_text |-> <<>>,
                result |-> IF IsBlank(file_path) THEN DiffErr("file_path")
                           ELSE IF IsBlank(commit) THEN DiffErr("commit")
                           ELSE NoDiffResult]]
    /\ ncalls' = ncalls + 1
    /\ UNCHANGED <<diff_cache, shows>>
    /\ UNCHANGED <<vars, blame_vars, fs_vars>>

\* diff_cache().lock()?.get(&cache_key).cloned(): the lock is held for
\* this step only.
diff_lookup(t) ==
    /\ calls[t].pc = "lookup"
    /\ LET key == cache_key(calls[t].commit, calls[t].file_path)
       IN  calls' = [calls EXCEPT ![t] =
               IF key \in DOMAIN diff_cache
               THEN [@ EXCEPT !.pc = "done",
                              !.result = DiffOk(diff_cache[key])]
               ELSE [@ EXCEPT !.pc = "show"]]
    /\ UNCHANGED <<diff_cache, shows, ncalls>>
    /\ UNCHANGED <<vars, blame_vars, fs_vars>>

\* Command::new("git").args(["show", ...]).output() and the checks of
\* what it gave.
git_show(t) ==
    /\ calls[t].pc = "show"
    /\ \E out \in GitShowOutcomes :
           LET call == <<calls[t].commit, calls[t].file_path>>
               found == out.status = "success" /\ ~IsBlank(out.stdout)
           IN  /\ calls' = [calls EXCEPT ![t] =
                      IF found
                      THEN [@ EXCEPT !.pc = "insert",
                                     !.diff_text = out.stdout]
                      ELSE [@ EXCEPT !.pc = "done",
                                     !.result = DiffErr(GitShowError(out))]]
               /\ shows' = IF found THEN [shows EXCEPT ![call] = @ + 1]
                           ELSE shows
    /\ UNCHANGED <<diff_cache, ncalls>>
    /\ UNCHANGED <<vars, blame_vars, fs_vars>>

\* diff_cache().lock()?.insert(cache_key, diff.clone()); Ok(diff)
diff_insert(t) ==
    /\ calls[t].pc = "insert"
    /\ LET key == cache_key(calls[t].commit, calls[t].file_path)
           diff == BlameDiff(calls[t].commit, calls[t].file_path,
                             calls[t].diff_text)
       IN  /\ diff_cache' = CacheInsert(diff_cache, key, diff)
           /\ calls' = [calls EXCEPT ![t] =
                  [@ EXCEPT !.pc = "done", !.result = DiffOk(diff)]]
    /\ UNCHANGED <<shows, ncalls>>
    /\ UNCHANGED <<vars, blame_vars, fs_vars>>

\* The call has returned; the thread is free for its next call.
diff_return(t) ==
    /\ calls[t].pc = "done"
    /\ calls' = [calls EXCEPT ![t] = NoCall]
    /\ UNCHANGED <<diff_cache, shows, ncalls>>
    /\ UNCHANGED <<vars, blame_vars, fs_vars>>

NextGit ==
    \/ \E t \in Threads : blame_commit_diff(t)
    \/ \E t \in Threads : diff_lookup(t)
    \/ \E t \in Threads : git_show(t)
    \/ \E t \in Threads : diff_insert(t)
    \/ \E t \in Threads : diff_return(t)

SpecGit == Init /\ [][NextGit]_all_vars

--------------------------------------------------------------------------
\* blame_range and blame_file.

\* blame_range is called.
blame_range ==
    /\ blame_pc = "idle"
    /\ \E lo \in Lines, hi \in Lines :
           blame_args' = [start_line |-> lo, end_line |-> hi]
    /\ blame_pc' = "blame_file"
    /\ UNCHANGED <<git_blame, blame_lines, blame_result>>
    /\ UNCHANGED <<vars, git_vars, fs_vars>>

\* core_git::blame_file(&path): git blame is run and its output parsed.
blame_file ==
    /\ blame_pc = "blame_file"
    /\ \E out \in GitBlameOutcomes :
           /\ git_blame' = out
           /\ blame_lines' = IF out.status = "success"
                             THEN parse_porcelain(out.stdout)
                             ELSE BlameErr
    /\ blame_pc' = "match"
    /\ UNCHANGED <<blame_args, blame_result>>
    /\ UNCHANGED <<vars, git_vars, fs_vars>>

\* blame_range, from blame_file's return.
blame_return ==
    /\ blame_pc = "match"
    /\ blame_result' = BlameFilter(blame_lines, blame_args.start_line,
                                   blame_args.end_line)
    /\ blame_pc' = "done"
    /\ UNCHANGED <<blame_args, git_blame, blame_lines>>
    /\ UNCHANGED <<vars, git_vars, fs_vars>>

NextBlame == blame_range \/ blame_file \/ blame_return

SpecBlame == Init /\ [][NextBlame]_all_vars

--------------------------------------------------------------------------
\* list_dir.

\* list_dir, up to the walker it builds.
list_dir ==
    /\ fs_pc = "idle"
    /\ \E check \in DirChecks :
           /\ fs_result' = IF check = "ok" THEN NoFsResult ELSE FsErr
           /\ fs_pc' = IF check = "ok" THEN "walk" ELSE "done"
    /\ UNCHANGED <<yielded, nodes>>
    /\ UNCHANGED <<vars, git_vars, blame_vars>>

\* The walker yields an error: entry.map_err(...)? returns it.
walk_error ==
    /\ fs_pc = "walk"
    /\ fs_result' = FsErr
    /\ fs_pc' = "done"
    /\ UNCHANGED <<yielded, nodes>>
    /\ UNCHANGED <<vars, git_vars, blame_vars>>

\* The walker yields an entry: the listed directory is skipped, any other
\* entry is pushed.
walk_entry ==
    /\ fs_pc = "walk"
    /\ \E entry \in NextEntries(yielded) :
           /\ yielded' = Append(yielded, entry)
           /\ nodes' = IF entry = RootEntry THEN nodes
                       ELSE Append(nodes, entry)
    /\ UNCHANGED <<fs_pc, fs_result>>
    /\ UNCHANGED <<vars, git_vars, blame_vars>>

\* The walker is at its end: nodes.sort_by(...) and Ok(nodes).
sort_return ==
    /\ fs_pc = "walk"
    /\ yielded # <<>>
    /\ nodes' = sort_by(nodes)
    /\ fs_result' = FsOk(sort_by(nodes))
    /\ fs_pc' = "done"
    /\ UNCHANGED yielded
    /\ UNCHANGED <<vars, git_vars, blame_vars>>

NextFs == list_dir \/ walk_error \/ walk_entry \/ sort_return

SpecFs == Init /\ [][NextFs]_all_vars

--------------------------------------------------------------------------
\* Properties of tokenize and collect_tokens (SpecTokenize).

RECURSIVE NodesOf(_), NodesOfSeq(_)
NodesOf(n) == {n} \cup NodesOfSeq(n.children)

NodesOfSeq(cs) ==
    IF cs = <<>> THEN {} ELSE NodesOf(Head(cs)) \cup NodesOfSeq(Tail(cs))

LeafSet(n) == {x \in NodesOf(n) : x.children = <<>>}

\* The leaves that are the leaf callee of a call_expression.
CalleeIds(n) ==
    {x.children[x.fn].id : x \in {y \in NodesOf(n) : HasLeafCallee(y)}}

OneLine(text, leaf) == Row(text, leaf.s) = Row(text, leaf.e)

\* The number of non-empty lines of a leaf's text.
Runs(text, leaf) ==
    Cardinality({i \in (leaf.s + 1)..leaf.e :
                    /\ text[i] # NL
                    /\ (i = leaf.s + 1 \/ text[i - 1] = NL)})

TokensOf(id) == {i \in 1..Len(origin) : origin[i] = id}

Tokenized == pc = "tokenized" /\ tok_result.tag = "ok"

\* The tree was parsed and walked to its end.
Walked == Tokenized /\ caller = "tokenize"

\* C1: every span tokenize emits has end_col > start_col and line >= 1,
\* on each of the three paths (single-line leaf, fragment of a multi-line
\* leaf, callee of a call_expression).
C1_SpansNonEmpty ==
    \A i \in 1..Len(tokens) :
        tokens[i].end_col > tokens[i].start_col /\ tokens[i].line >= 1

\* C2: tokenize never fails on a parsed tree, and on the empty text, whose
\* tree is a root without children, it returns Ok with no span.
C2_EmptyTreeNoSpans ==
    /\ (pc = "tokenized" /\ tree # NoTree) => tok_result.tag = "ok"
    /\ (Tokenized /\ content = <<>> /\ tree.children = <<>>)
           => tok_result.tokens = <<>>

C4_LeafOrder ==
    \A i, j \in 1..Len(origin) : origin[i] < origin[j] => i < j

\* C4 as amended: the spans come in the order of their leaves when every
\* leaf callee of a call_expression is the first child; a leaf callee at a
\* later position has its span before those of the children that precede it.
C4_LeafOrderCalleeFirst ==
    /\ (\A n \in NodesOf(tree) : HasLeafCallee(n) => n.fn = 1)
           => \A i, j \in 1..Len(origin) : origin[i] < origin[j] => i < j
    /\ Walked =>
           \A n \in NodesOf(tree) :
               HasLeafCallee(n) =>
                   \A c \in TokensOf(n.children[n.fn].id) :
                       \A k \in 1..Len(n.children) :
                           \A x \in NodesOf(n.children[k]) :
                               \A t \in TokensOf(x.id) :
                                   k # n.fn => c < t

\* Two leaves under a call_expression whose first child is the leaf callee
\* both gave spans.
C4_Witness ==
    /\ Walked
    /\ tree.kind = "call_expression"
    /\ tree.fn = 1
    /\ Len(tree.children) = 2
    /\ tree.children[1].children = <<>>
    /\ TokensOf(tree.children[1].id) # {}
    /\ \E x \in NodesOf(tree.children[2]) : TokensOf(x.id) # {}

\* C5: no two spans on one line have intersecting column ranges.
C5_NoOverlap ==
    \A i, j \in 1..Len(tokens) :
        (i < j /\ tokens[i].line = tokens[j].line) =>
            ~(/\ tokens[i].start_col < tokens[j].end_col
              /\ tokens[j].start_col < tokens[i].end_col
              /\ tokens[i].start_col < tokens[i].end_col
              /\ tokens[j].start_col < tokens[j].end_col)

\* Two spans of non-zero width on one line, the second from a multi-line
\* leaf or a callee.
C5_Witness ==
    /\ Walked
    /\ \E i, j \in 1..Len(tokens) :
           /\ i # j
           /\ tokens[i].line = tokens[j].line
           /\ tokens[i].end_col > tokens[i].start_col
           /\ tokens[j].end_col > tokens[j].start_col
           /\ origin[i] # origin[j]
           /\ tokens[j].token_type = "Function"

\* C6: the leaf callee of a call_expression gets exactly one span, of
\* category Function, before the spans of the node's other children, which
\* are visited in their order; every leaf is visited once (a callee gives
\* one span, another leaf one per non-empty line of its text); and
\* "foo(1)" gives a Function span at columns 0..3 and a Number span.
C6_CalleeOnce ==
    Walked =>
        /\ \A leaf \in LeafSet(tree) :
               IF leaf.id \in CalleeIds(tree)
               THEN /\ Cardinality(TokensOf(leaf.id)) = 1
                    /\ \A i \in TokensOf(leaf.id) :
                           /\ tokens[i].token_type = "Function"
                           /\ tokens[i].line = Row(content, leaf.s) + 1
                           /\ tokens[i].start_col = Col(content, leaf.s)
                           /\ tokens[i].end_col = Col(content, leaf.e)
               ELSE Cardinality(TokensOf(leaf.id)) =
                        IF OneLine(content, leaf) THEN 1
                        ELSE Runs(content, leaf)
        /\ \A i, j \in 1..Len(origin) :
               (origin[i] \notin CalleeIds(tree)
                    /\ origin[j] \notin CalleeIds(tree)
                    /\ origin[i] < origin[j]) => i < j
        /\ \A n \in NodesOf(tree) :
               HasLeafCallee(n) =>
                   \A c \in TokensOf(n.children[n.fn].id) :
                       \A k \in 1..Len(n.children) :
                           \A x \in NodesOf(n.children[k]) :
                               \A t \in TokensOf(x.id) :
                                   k # n.fn => c < t
        /\ content = FooText =>
               /\ \E i \in 1..Len(tokens) :
                      tokens[i] = TokenSpan(1, 0, 3, "Function")
               /\ \E i \in 1..Len(tokens) :
                      tokens[i] = TokenSpan(1, 4, 5, "Number")
               /\ Len(tokens) = 4

\* "foo(1)" was tokenized.
C6_Witness == Walked /\ content = FooText /\ Len(tokens) = 4

--------------------------------------------------------------------------
\* Properties of classify_node (SpecClassify).

NoRuleMatches(kind, parent_kind) ==
    /\ ~is_comment_kind(kind)
    /\ ~is_string_kind(kind)
    /\ ~is_number_kind(kind)
    /\ kind \notin KeywordKinds \cup OperatorKinds \cup PunctuationKinds
    /\ ~is_type_kind(kind)
    /\ kind \notin FunctionKinds \cup VariableKinds
    /\ <<kind, parent_kind>> \notin FunctionContexts
    /\ parent_kind \notin VariableParents

\* C7: classify_node maps every (kind, parent kind) pair, the empty parent
\* kind of the root included, to one of the ten categories, and to Plain
\* exactly when no rule matches the pair.
C7_ClassifyTotal ==
    pc = "classified" =>
        /\ cls.token_type \in TokenType
        /\ Cardinality(TokenType) = 10
        /\ cls.token_type = "Plain"
               <=> NoRuleMatches(cls.kind, cls.parent_kind)

\* A kind of no table under the root's empty parent kind came out Plain.
C7_Witness ==
    /\ pc = "classified"
    /\ cls.kind = "program"
    /\ cls.parent_kind = ""
    /\ cls.token_type = "Plain"

--------------------------------------------------------------------------
\* Properties of highlight_range (Spec).

Returned == pc = "done" /\ caller = "highlight_range"

\* highlight_range returned the filtered tokens of a file it read.
Filtered == Returned /\ file_status = "read" /\ result.tag = "ok"

InRange(t) == t.line >= start_line /\ t.line <= end_line

Kept == {i \in 1..Len(tok_result.tokens) : InRange(tok_result.tokens[i])}

\* C8: the filter returns exactly the spans with start_line <= line <=
\* end_line, in their order, sorted input or not; a range [L, L] keeps the
\* spans of line L only, and a range that covers every line of the file
\* changes nothing.
C8_FilterExact ==
    Filtered =>
        /\ Len(result.tokens) = Cardinality(Kept)
        /\ \A i \in Kept :
               result.tokens[Cardinality({j \in Kept : j <= i})]
                   = tok_result.tokens[i]
        /\ start_line = end_line =>
               \A k \in 1..Len(result.tokens) :
                   result.tokens[k].line = start_line
        /\ (start_line <= 1
                /\ end_line >= Row(content, Len(content)) + 1)
               => result.tokens = tok_result.tokens

\* The filter kept a span that follows a dropped span of a later line.
C8_Witness ==
    /\ Filtered
    /\ result.tokens # <<>>
    /\ \E i, j \in 1..Len(tok_result.tokens) :
           /\ i < j
           /\ tok_result.tokens[i].line > end_line
           /\ InRange(tok_result.tokens[j])

\* C9: for a path the resolver knows no language for, highlight_range
\* returns Ok with no span, and no file access precedes or follows.
C9_UnsupportedIsEmptyOk ==
    (caller = "highlight_range" /\ file_status = "untouched"
         /\ detect_language(path) = "")
        => /\ pc = "done"
           /\ result = Ok(<<>>)
           /\ ~ENABLED read_file

\* highlight_range returned for the path no_extension.
C9_Witness ==
    /\ Returned
    /\ path = <<"n", "o", "_", "e", "x", "t", "e", "n", "s", "i", "o", "n">>
    /\ result = Ok(<<>>)
    /\ file_status = "untouched"

--------------------------------------------------------------------------
\* Properties of blame_commit_diff and its cache (SpecGit).

\* C11: whatever the interleaving of the calls with one commit and one
\* file path, git show is run to a diff at most once for them: once before
\* the entry is cached, and never after it.
C11_OneShowPerKey == \A call \in Commits \X FilePaths : shows[call] <= 1

\* C12: a call that returns Ok returns a BlameDiff of its own commit and
\* its own path, from the cache or not: no two pairs (commit, path) share
\* an entry of the cache.
C12_ReturnsOwnPair ==
    \A t \in Threads :
        calls[t].result.tag = "ok" =>
            /\ calls[t].result.diff.commit = calls[t].commit
            /\ calls[t].result.diff.path = calls[t].file_path

--------------------------------------------------------------------------
\* Properties of blame_range, blame_file and parse_porcelain (SpecBlame).

BlameReturned == blame_pc = "done"

BlameKept ==
    {i \in 1..Len(blame_lines.lines) :
        /\ blame_lines.lines[i].line >= blame_args.start_line
        /\ blame_lines.lines[i].line <= blame_args.end_line}

\* C13: blame_range never returns an error.  When blame_file fails (git
\* cannot be run, git exits unsuccessfully, a line number of the porcelain
\* is no number) it returns Ok with no line; else it returns exactly the
\* blame lines with start_line <= line <= end_line, in their order.
C13_BlameRangeNeverFails ==
    BlameReturned =>
        /\ blame_result.tag = "ok"
        /\ git_blame.status # "success" => blame_lines.tag = "err"
        /\ blame_lines.tag = "err" => blame_result.lines = <<>>
        /\ blame_lines.tag = "ok" =>
               /\ Len(blame_result.lines) = Cardinality(BlameKept)
               /\ \A i \in BlameKept :
                      blame_result.lines[
                          Cardinality({j \in BlameKept : j <= i})]
                              = blame_lines.lines[i]

\* blame_range returned after git blame's output had a header whose line
\* number is no number.
C13_Witness ==
    /\ BlameReturned
    /\ git_blame.status = "success"
    /\ blame_lines.tag = "err"
    /\ blame_result = BlameOk(<<>>)

\* The lines of the input that are valid header lines: no content line
\* (TAB first), at least three fields, the first of them 40 hex digits.
HeaderLines(lines) ==
    {i \in 1..Len(lines) :
        LET parts == split_whitespace(lines[i])
        IN  /\ ~starts_with(lines[i], <<TAB>>)
            /\ Len(parts) >= 3
            /\ Len(parts[1]) = 40
            /\ \A k \in 1..40 : parts[1][k] \in HexDigits}

\* The metadata lines of the header at i: those between it and the next
\* content line.
MetadataLines(lines, i) ==
    {j \in (i + 1)..Len(lines) :
        \A k \in (i + 1)..j : ~starts_with(lines[k], <<TAB>>)}

\* The value of the last metadata line of the header at i with the prefix,
\* none when there is no such line.
MetadataValue(lines, i, prefix, none) ==
    LET with == {j \in MetadataLines(lines, i) : starts_with(lines[j], prefix)}
    IN  IF with = {} THEN none
        ELSE SubSeq(lines[SetMax(with)], Len(prefix) + 1,
                    Len(lines[SetMax(with)]))

Parsed == blame_pc \in {"match", "done"} /\ git_blame.status = "success"

\* C20: on an input whose header lines have a number as third field,
\* parse_porcelain returns one BlameLine per valid header line, in the
\* order of the input, with the line of the third field, the first 7
\* characters of the hash, and the author and summary of the metadata lines
\* up to the next content line; no other line gives an entry, a content
\* line (TAB first) is never read as a header, and an empty input gives an
\* empty list.
C20_OneEntryPerHeader ==
    LET lines == git_blame.stdout
        hs == HeaderLines(lines)
    IN  (Parsed /\ \A i \in hs : IsU32(split_whitespace(lines[i])[3])) =>
            /\ blame_lines.tag = "ok"
            /\ Len(blame_lines.lines) = Cardinality(hs)
            /\ \A i \in hs :
                   LET bl == blame_lines.lines[Cardinality({j \in hs : j <= i})]
                       parts == split_whitespace(lines[i])
                   IN  /\ bl.line = parse_u32(parts[3])
                       /\ bl.commit = SubSeq(parts[1], 1, 7)
                       /\ bl.author
                              = MetadataValue(lines, i, AuthorPrefix, <<>>)
                       /\ bl.summary
                              = MetadataValue(lines, i, SummaryPrefix, <<>>)

--------------------------------------------------------------------------
\* Properties of detect_language (Spec: highlight_range applies it to its
\* path).

\* highlight_range has resolved the language of its path, which it still
\* holds.
Resolved ==
    /\ caller = "highlight_range"
    /\ pc = "read" \/ (pc = "done" /\ file_status = "untouched")

\* The base name of a path: what follows its last '/'.
BaseName(p) ==
    LET slashes == {i \in 1..Len(p) : p[i] = "/"}
    IN  IF slashes = {} THEN p ELSE SubSeq(p, SetMax(slashes) + 1, Len(p))

HasExtension(p) == \E i \in 1..Len(BaseName(p)) : BaseName(p)[i] = "."

\* The extension of a path that has one: what follows the last '.' of its
\* base name.
Extension(p) ==
    LET base == BaseName(p)
    IN  SubSeq(base, SetMax({i \in 1..Len(base) : base[i] = "."}) + 1,
               Len(base))

\* C14: detect_language decides by the extension of the path, whatever its
\* case: a recognized extension gives its language; a path with no
\* extension, or with an extension that is not recognized, gives None,
\* whatever the base name and the directories are.
C14_ByExtension ==
    Resolved =>
        IF HasExtension(path)
        THEN \A r \in ExtTable :
                 /\ r[1] = to_ascii_lowercase(Extension(path))
                        => language = r[2]
                 /\ language = r[2]
                        => \E q \in ExtTable :
                               /\ q[2] = language
                               /\ q[1] = to_ascii_lowercase(Extension(path))
        ELSE language = ""

--------------------------------------------------------------------------
\* Properties of the multi-line leaves and of the order of the lines
\* (SpecTokenize).

\* The kind of the parent of the node id, "" for the root.
ParentKindOf(id) ==
    LET ps == {n \in NodesOf(tree) :
                  \E k \in 1..Len(n.children) : n.children[k].id = id}
    IN  IF ps = {} THEN "" ELSE (CHOOSE n \in ps : TRUE).kind

\* Where the non-empty fragments of a leaf's text start (1-based).
RunStarts(leaf) ==
    {i \in (leaf.s + 1)..leaf.e :
        /\ content[i] # NL
        /\ (i = leaf.s + 1 \/ content[i - 1] = NL)}

\* The length of the fragment that starts at i.
RunLen(leaf, i) ==
    LET stops == {j \in i..leaf.e : content[j] = NL} \cup {leaf.e + 1}
    IN  (CHOOSE j \in stops : \A k \in stops : j <= k) - i

\* The index of the fragment that starts at i.
FragmentIndex(leaf, i) ==
    Cardinality({j \in (leaf.s + 1)..(i - 1) : content[j] = NL})

\* The span of the fragment that starts at i.
FragmentSpan(leaf, i) ==
    LET start_col == IF FragmentIndex(leaf, i) = 0
                     THEN Col(content, leaf.s) ELSE 0
    IN  TokenSpan(Row(content, leaf.s) + 1 + FragmentIndex(leaf, i),
                  start_col, start_col + RunLen(leaf, i),
                  classify_node(leaf.kind, ParentKindOf(leaf.id)))

\* The spans of the leaf are those of its non-empty fragments, in order.
FragmentsEmitted(leaf) ==
    /\ Cardinality(TokensOf(leaf.id)) = Cardinality(RunStarts(leaf))
    /\ \A r \in RunStarts(leaf) :
           \E t \in TokensOf(leaf.id) :
               /\ Cardinality({u \in TokensOf(leaf.id) : u <= t})
                      = Cardinality({q \in RunStarts(leaf) : q <= r})
               /\ tokens[t] = FragmentSpan(leaf, r)

\* C16 as claimed: every leaf whose start and end lines differ gives one
\* span per non-empty fragment of its text split on newlines: for the
\* fragment of index i, line = start line + i, start_col = the leaf's start
\* column if i = 0 and 0 otherwise, end_col = start_col + the fragment's
\* length, and the leaf's category; empty fragments give nothing.
C16_FragmentsOfEveryLeaf ==
    Walked =>
        \A leaf \in LeafSet(tree) :
            ~OneLine(content, leaf) => FragmentsEmitted(leaf)

\* C16 as amended: the same of every leaf whose start and end lines differ
\* and that is not the leaf callee of a call_expression.
C16_FragmentsOfLeaves ==
    Walked =>
        \A leaf \in LeafSet(tree) :
            (~OneLine(content, leaf) /\ leaf.id \notin CalleeIds(tree))
                => FragmentsEmitted(leaf)

\* A leaf of two non-empty lines, no callee, gave its two spans.
C16_Witness ==
    /\ Walked
    /\ \E leaf \in LeafSet(tree) :
           /\ ~OneLine(content, leaf)
           /\ leaf.id \notin CalleeIds(tree)
           /\ Cardinality(RunStarts(leaf)) = 2
           /\ Cardinality(TokensOf(leaf.id)) = 2

\* C19 as claimed: the lines of the spans never decrease along the
\* sequence, whatever the tree.
C19_SortedByLine ==
    \A i, j \in 1..Len(tokens) : i < j => tokens[i].line <= tokens[j].line

\* C19 as amended: the lines of the spans never decrease along the sequence
\* when every leaf callee of a call_expression is its first child.
C19_SortedByLineCalleeFirst ==
    (\A n \in NodesOf(tree) : HasLeafCallee(n) => n.fn = 1) =>
        \A i, j \in 1..Len(tokens) : i < j => tokens[i].line <= tokens[j].line

\* A call_expression with its leaf callee first gave spans on two lines.
C19_Witness ==
    /\ Walked
    /\ \E n \in NodesOf(tree) : HasLeafCallee(n) /\ n.fn = 1
    /\ \E i, j \in 1..Len(tokens) : tokens[i].line < tokens[j].line

--------------------------------------------------------------------------
\* Properties of the order and the contexts of classify_node
\* (SpecClassify).

Classified == pc = "classified"

\* The categories in the order of their rules.
RuleOrder ==
    <<"Comment", "String", "Number", "Keyword", "Operator", "Punctuation",
      "Type", "Function", "Variable", "Plain">>

\* The rule of a category matches the kind under the parent kind.
RuleMatches(category, kind, parent_kind) ==
    CASE category = "Comment" -> is_comment_kind(kind)
      [] category = "String" -> is_string_kind(kind)
      [] category = "Number" -> is_number_kind(kind)
      [] category = "Keyword" -> is_keyword_kind(kind)
      [] category = "Operator" -> is_operator_kind(kind)
      [] category = "Punctuation" -> is_punctuation_kind(kind)
      [] category = "Type" -> is_type_kind(kind)
      [] category = "Function" -> is_function_kind(kind, parent_kind)
      [] category = "Variable" -> is_variable_kind(kind, parent_kind)
      [] OTHER -> TRUE

\* C17: classify_node returns the category of the earliest rule that
\* matches, in the order Comment, String, Number, Keyword, Operator,
\* Punctuation, Type, Function, Variable, Plain, for every kind, those of
\* more than one table among them ('<', '>' and '/' are operators), and
\* every parent kind.
C17_EarliestRule ==
    Classified =>
        \E r \in 1..Len(RuleOrder) :
            /\ cls.token_type = RuleOrder[r]
            /\ RuleMatches(RuleOrder[r], cls.kind, cls.parent_kind)
            /\ \A q \in 1..(r - 1) :
                   ~RuleMatches(RuleOrder[q], cls.kind, cls.parent_kind)

\* '<', of the operator and the punctuation tables, was classified.
C17_Witness ==
    /\ Classified
    /\ cls.kind = "<"
    /\ cls.kind \in OperatorKinds \cap PunctuationKinds
    /\ cls.token_type = "Operator"

VariableFamily ==
    {"identifier", "property_identifier", "field_identifier",
     "attribute_name", "property_name", "variable_name",
     "module_identifier"}

\* C18 as claimed: 'identifier' and 'property_identifier' are Function
\* under a function_declaration or a method_definition, every
\* Variable-family kind is Function under a call_expression, and these
\* kinds are Variable under every other parent.
C18_FunctionContexts ==
    (Classified /\ cls.kind \in VariableFamily) =>
        cls.token_type =
            IF \/ /\ cls.kind \in {"identifier", "property_identifier"}
                  /\ cls.parent_kind
                         \in {"function_declaration", "method_definition"}
               \/ cls.parent_kind = "call_expression"
            THEN "Function" ELSE "Variable"

\* C18 as amended: 'identifier' is Function under a function_declaration,
\* a method_definition, a function_item or a call_expression,
\* 'property_identifier' under a function_declaration or a
\* method_definition; under every other parent the Variable-family kinds
\* are Variable, under a call_expression too.
C18_FunctionContextsOfIdentifier ==
    (Classified /\ cls.kind \in VariableFamily) =>
        cls.token_type =
            IF \/ /\ cls.kind = "identifier"
                  /\ cls.parent_kind
                         \in {"function_declaration", "method_definition",
                              "function_item", "call_expression"}
               \/ /\ cls.kind = "property_identifier"
                  /\ cls.parent_kind
                         \in {"function_declaration", "method_definition"}
            THEN "Function" ELSE "Variable"

\* A property_identifier under a call_expression was classified.
C18_Witness ==
    /\ Classified
    /\ cls.kind = "property_identifier"
    /\ cls.parent_kind = "call_expression"
    /\ cls.token_type = "Variable"

--------------------------------------------------------------------------
\* Properties of list_dir (SpecFs).

Listed == fs_pc = "done" /\ fs_result.tag = "ok"

\* The number of times x occurs in the sequence s.
Count(s, x) == Cardinality({i \in 1..Len(s) : s[i] = x})

\* a is before b or equal to it in the order of the characters without
\* their case.
NameLeq(a, b) == ~StrLess(to_ascii_lowercase(b), to_ascii_lowercase(a))

\* C15: list_dir returns every directory before every file, each kind in
\* the order of the names compared without their case; what it returns is
\* a permutation of the entries the walker yielded, less the listed
\* directory itself.
C15_DirsFirstByName ==
    Listed =>
        LET out == fs_result.nodes
        IN  /\ \A i, j \in 1..Len(out) :
                   i < j =>
                       /\ ~(out[i].kind = "File" /\ out[j].kind = "Dir")
                       /\ out[i].kind = out[j].kind
                              => NameLeq(out[i].name, out[j].name)
            /\ Len(out) = Len(yielded) - Count(yielded, RootEntry)
            /\ \A i \in 1..Len(yielded) :
                   yielded[i] # RootEntry
                       => Count(out, yielded[i]) = Count(yielded, yielded[i])
            /\ \A i \in 1..Len(out) : out[i] # RootEntry

\* list_dir returned a file "a" before a file "B", which the walker
\* yielded in the other order, and a directory before both.
C15_Witness ==
    /\ Listed
    /\ Len(fs_result.nodes) = 3
    /\ fs_result.nodes[1].kind = "Dir"
    /\ fs_result.nodes[2] = FileNode(<<"a">>, "File")
    /\ fs_result.nodes[3] = FileNode(<<"B">>, "File")

--------------------------------------------------------------------------
\* The frame of blame_commit_diff (SpecGit).

\* The call of thread t returns with this step.
Returns(t) == calls[t].pc # "done" /\ calls'[t].pc = "done"

BlankArguments(call) == IsBlank(call.file_path) \/ IsBlank(call.commit)

\* The step of a call that stores its diff under its key.
Stores(t) ==
    LET key == calls[t].commit \o <<":", ":">> \o calls[t].file_path
    IN  /\ calls[t].pc = "insert"
        /\ ~IsBlank(calls[t].diff_text)
        /\ Returns(t)
        /\ calls'[t].result.tag = "ok"
        /\ key \in DOMAIN diff_cache'
        /\ diff_cache'[key].commit = calls[t].commit
        /\ diff_cache'[key].path = calls[t].file_path
        /\ diff_cache'[key].diff_text = calls[t].diff_text
        /\ \A k \in DOMAIN diff_cache' \ {key} :
               k \in DOMAIN diff_cache /\ diff_cache'[k] = diff_cache[k]

C21_Step ==
    /\ diff_cache' # diff_cache => \E t \in Threads : Stores(t)
    /\ \A k \in DOMAIN diff_cache : k \in DOMAIN diff_cache'
    /\ \A k \in DOMAIN diff_cache' : ~IsBlank(diff_cache'[k].diff_text)
    /\ \A t \in Threads :
           /\ (Returns(t) /\ calls'[t].result.tag = "err")
                  => diff_cache' = diff_cache
           /\ (Returns(t) /\ BlankArguments(calls'[t])) =>
                  /\ calls[t].pc = "idle"
                  /\ calls'[t].result.tag = "err"
                  /\ shows' = shows
           /\ (Returns(t) /\ calls[t].pc = "show")
                  => calls'[t].result.tag = "err"
           /\ calls'[t].pc \in {"lookup", "show", "insert"}
                  => ~BlankArguments(calls'[t])

\* C21: the diff cache changes only by the insert of an entry after a git
\* show that succeeded with an output that is not blank.  A call that fails
\* (blank file_path or commit, git that cannot be run or exits
\* unsuccessfully, a blank diff) returns an error and leaves the cache as it
\* is, a blank argument before any access to the cache and any run of git;
\* no entry is ever removed, and no stored diff_text is blank.
C21_CacheFrame == [][C21_Step]_all_vars

\* A call failed at git show while the cache held an entry.
C21_Witness ==
    /\ diff_cache # <<>>
    /\ \E t \in Threads :
           /\ calls[t].pc = "done"
           /\ calls[t].result.tag = "err"
           /\ ~BlankArguments(calls[t])

====
